---- MODULE Spec2Model ----
(***************************************************************************)
(* Move selection of the chess agents of src/agents.py: RandomAgent,       *)
(* MinimaxAgent, AlphaBetaAgent and ExpectimaxAgent, and the evaluation    *)
(* function evaluate_board_state they call at the leaves.                  *)
(*                                                                         *)
(* The rules engine (python-chess) is modelled by a small deterministic    *)
(* game: a position is an integer, a move goes from one position to        *)
(* another, the board keeps the side to move and the stack of moves        *)
(* pushed.  The searches are recursive functions of the board; each is an  *)
(* operator that threads the board through every push and pop it makes     *)
(* and returns the board it leaves behind next to its Python result.       *)
(***************************************************************************)
EXTENDS Integers, Sequences, FiniteSets, TLC

VARIABLES material, ended, board, out

vars == <<material, ended, board, out>>

(***************************************************************************)
(* Bounds of the model.                                                    *)
(***************************************************************************)
NPos == 3
MaxBranch == 3
MaxDepth == 3

Positions == 0 .. (NPos - 1)
Depths == 0 .. MaxDepth
Colors == {"white", "black"}
MaterialValues == {-1, 0, 1}
NoPos == -1

(***************************************************************************)
(* Numbers.  Python mixes int, float and float("inf"); a value is kept as  *)
(* a reduced fraction num/den, and den = 0 stands for an infinity.         *)
(***************************************************************************)
RECURSIVE Gcd(_, _)
Gcd(a, b) == IF b = 0 THEN a ELSE Gcd(b, a % b)

Abs(n) == IF n < 0 THEN -n ELSE n

Frac(n, d) == LET g == Gcd(Abs(n), d) IN [num |-> n \div g, den |-> d \div g]

Num(n) == [num |-> n, den |-> 1]

NegInf == [num |-> -1, den |-> 0]

PosInf == [num |-> 1, den |-> 0]

IsFinite(a) == a.den # 0

Less(a, b) ==
    IF a.den = 0 /\ b.den = 0 THEN a.num < b.num
    ELSE a.num * b.den < b.num * a.den

Neg(a) == [num |-> -a.num, den |-> a.den]

Add(a, b) == Frac(a.num * b.den + b.num * a.den, a.den * b.den)

PyMax(a, b) == IF Less(a, b) THEN b ELSE a

PyMin(a, b) == IF Less(b, a) THEN b ELSE a

(***************************************************************************)
(* The rules engine.                                                       *)
(***************************************************************************)
None == [from_square |-> NoPos, to_square |-> NoPos]

NumMoves(pos) == 1 + ((pos + 2) % MaxBranch)

Target(pos, k) == (pos + k) % NPos

is_checkmate(b) == ended.kind = "mate" /\ ended.pos = b.pos

is_check(b) == is_checkmate(b)

is_game_over(b) == ended.kind # "none" /\ ended.pos = b.pos

legal_moves(b) ==
    IF is_checkmate(b) THEN << >>
    ELSE [k \in 1 .. NumMoves(b.pos) |->
            [from_square |-> b.pos, to_square |-> Target(b.pos, k)]]

uci(move) == <<move.from_square, move.to_square>>

from_uci(s) == [from_square |-> s[1], to_square |-> s[2]]

push(b, move) ==
    [pos |-> move.to_square, turn |-> ~b.turn,
     move_stack |-> Append(b.move_stack, move)]

pop_skipped(b) == b

pop(b) ==
    LET n == Len(b.move_stack) IN
    [pos |-> b.move_stack[n].from_square, turn |-> ~b.turn,
     move_stack |-> SubSeq(b.move_stack, 1, n - 1)]

side_to_move(b) == IF b.turn THEN "white" ELSE "black"

(***************************************************************************)
(* The four evaluation terms of utiles, in the white reference.            *)
(***************************************************************************)
CheckScore == 1
MateScore == 10

Toward(turn, x) == IF turn = "white" THEN x ELSE -x

check_status(b, turn) == IF is_check(b) THEN Toward(turn, -CheckScore) ELSE 0

evaluationBoard(b) == material[b.pos]

checkmate_status(b, turn) ==
    IF is_checkmate(b) THEN Toward(turn, -MateScore) ELSE 0

good_square_moves(b, turn) == Toward(turn, Len(legal_moves(b)))

node_evaluation(b, turn) ==
    check_status(b, turn) + evaluationBoard(b)
    + checkmate_status(b, turn) + good_square_moves(b, turn)

evaluate_board_state_unsigned(b, turn) == Num(node_evaluation(b, turn))

evaluate_board_state(b, turn) ==
    IF turn = "white" THEN Num(node_evaluation(b, turn))
    ELSE Num(-node_evaluation(b, turn))

(***************************************************************************)
(* A search returns the Python pair (value, move).  The model adds the     *)
(* board the call leaves behind, the exception it raised, if any, and the  *)
(* number of search calls it took (this call and those below it).          *)
(***************************************************************************)
Result(value, move, b, calls) ==
    [value |-> value, move |-> move, board |-> b, error |-> "", calls |-> calls]

Raised(error, b, calls) ==
    [value |-> Num(0), move |-> None, board |-> b, error |-> error,
     calls |-> calls]

next_turn(turn) == IF turn = "black" THEN "white" ELSE "black"

initial_best_swapped(is_maximizing) == IF is_maximizing THEN PosInf ELSE NegInf

initial_best(is_maximizing) == IF is_maximizing THEN NegInf ELSE PosInf

improves_or_ties(is_maximizing, value, best_value) ==
    IF is_maximizing THEN ~Less(value, best_value) ELSE ~Less(best_value, value)

improves(is_maximizing, value, best_value) ==
    IF is_maximizing THEN Less(best_value, value) ELSE Less(value, best_value)

(***************************************************************************)
(* MinimaxAgent.minimax                                                    *)
(***************************************************************************)
RECURSIVE minimax(_, _, _, _)
RECURSIVE minimax_loop(_, _, _, _, _, _, _, _, _)

minimax_leaf_unsigned(evaluation, turn) == evaluation

minimax_leaf(evaluation, turn) ==
    IF turn = "white" THEN evaluation ELSE Neg(evaluation)

minimax(b, depth, turn, is_maximizing) ==
    IF depth = 0 \/ is_game_over(b)
    THEN Result(minimax_leaf(evaluate_board_state(b, turn), turn), None, b, 1)
    ELSE minimax_loop(b, depth, turn, is_maximizing, legal_moves(b), 1,
                      initial_best(is_maximizing), None, 1)

minimax_loop(b, depth, turn, is_maximizing, moves, i, best_value, best_move, calls) ==
    IF i > Len(moves) THEN Result(best_value, best_move, b, calls)
    ELSE LET move == from_uci(uci(moves[i]))
             child == minimax(push(b, move), depth - 1, next_turn(turn),
                              ~is_maximizing)
         IN  IF improves(is_maximizing, child.value, best_value)
             THEN minimax_loop(pop(child.board), depth, turn, is_maximizing,
                               moves, i + 1, child.value, move,
                               calls + child.calls)
             ELSE minimax_loop(pop(child.board), depth, turn, is_maximizing,
                               moves, i + 1, best_value, best_move,
                               calls + child.calls)

(***************************************************************************)
(* AlphaBetaAgent.alpha_beta                                               *)
(***************************************************************************)
RECURSIVE alpha_beta(_, _, _, _, _, _)
RECURSIVE alpha_beta_loop(_, _, _, _, _, _, _, _, _, _, _)

cutoff_swapped(is_maximizing, alpha, beta, best_value) ==
    IF is_maximizing THEN ~Less(alpha, best_value) ELSE ~Less(best_value, beta)

cutoff_inverted(is_maximizing, alpha, beta, best_value) ==
    IF is_maximizing THEN ~Less(beta, best_value) ELSE ~Less(best_value, alpha)

cutoff(is_maximizing, alpha, beta, best_value) ==
    IF is_maximizing THEN ~Less(best_value, beta) ELSE ~Less(alpha, best_value)

alpha_beta(b, depth, turn, is_maximizing, alpha, beta) ==
    IF depth = 0 \/ is_game_over(b)
    THEN Result(minimax_leaf(evaluate_board_state(b, turn), turn), None, b, 1)
    ELSE alpha_beta_loop(b, depth, turn, is_maximizing, legal_moves(b), 1,
                         initial_best(is_maximizing), None,
                         alpha, beta, 1)

alpha_beta_loop(b, depth, turn, is_maximizing, moves, i, best_value, best_move, alpha, beta, calls) ==
    IF i > Len(moves) THEN Result(best_value, best_move, b, calls)
    ELSE LET move == from_uci(uci(moves[i]))
             child == alpha_beta(push(b, move), depth - 1, next_turn(turn),
                                 ~is_maximizing, alpha, beta)
             popped == pop(child.board)
             take == improves(is_maximizing, child.value, best_value)
             value == IF take THEN child.value ELSE best_value
             chosen == IF take THEN move ELSE best_move
         IN  IF cutoff(is_maximizing, alpha, beta, value)
             THEN Result(value, chosen, popped, calls + child.calls)
             ELSE alpha_beta_loop(popped, depth, turn, is_maximizing, moves,
                                  i + 1, value, chosen,
                                  IF is_maximizing THEN PyMax(alpha, value)
                                  ELSE alpha,
                                  IF is_maximizing THEN beta
                                  ELSE PyMin(beta, value),
                                  calls + child.calls)

(***************************************************************************)
(* ExpectimaxAgent.expectimax                                              *)
(***************************************************************************)
RECURSIVE expectimax(_, _, _, _)
RECURSIVE expectimax_max(_, _, _, _, _, _, _, _)
RECURSIVE expectimax_chance(_, _, _, _, _, _, _, _)

expectimax_leaf_unsigned(evaluation, is_maximizing) == evaluation

expectimax_leaf(evaluation, is_maximizing) ==
    IF is_maximizing THEN evaluation ELSE Neg(evaluation)

first_move(moves) == moves[1]

mean_floor(value_sum, n) == Num(value_sum.num \div (value_sum.den * n))

mean(value_sum, n) == Frac(value_sum.num, value_sum.den * n)

expectimax(b, depth, turn, is_maximizing) ==
    IF depth = 0 \/ is_game_over(b)
    THEN Result(expectimax_leaf(evaluate_board_state(b, turn), is_maximizing),
                None, b, 1)
    ELSE LET moves == legal_moves(b) IN
         IF Len(moves) = 0 THEN Raised("IndexError", b, 1)
         ELSE IF is_maximizing
         THEN expectimax_max(b, depth, turn, moves, 1, initial_best(TRUE),
                             first_move(moves), 1)
         ELSE expectimax_chance(b, depth, turn, moves, 1, Num(0),
                                first_move(moves), 1)

expectimax_max(b, depth, turn, moves, i, best_value, best_move, calls) ==
    IF i > Len(moves) THEN Result(best_value, best_move, b, calls)
    ELSE LET move == from_uci(uci(moves[i]))
             child == expectimax(push(b, move), depth - 1, next_turn(turn),
                                 FALSE)
         IN  IF child.error # ""
             THEN Raised(child.error, child.board, calls + child.calls)
             ELSE IF improves(TRUE, child.value, best_value)
             THEN expectimax_max(pop(child.board), depth, turn, moves, i + 1,
                                 child.value, move, calls + child.calls)
             ELSE expectimax_max(pop(child.board), depth, turn, moves, i + 1,
                                 best_value, best_move, calls + child.calls)

expectimax_chance(b, depth, turn, moves, i, value_sum, best_move, calls) ==
    IF i > Len(moves)
    THEN Result(mean(value_sum, Len(moves)), best_move, b, calls)
    ELSE LET move == from_uci(uci(moves[i]))
             child == expectimax(push(b, move), depth - 1, next_turn(turn),
                                 TRUE)
         IN  IF child.error # ""
             THEN Raised(child.error, child.board, calls + child.calls)
             ELSE expectimax_chance(pop(child.board), depth, turn, moves,
                                    i + 1, Add(value_sum, child.value),
                                    best_move, calls + child.calls)

(***************************************************************************)
(* The state: the engine's tables, the shared board, and the call made on  *)
(* the agent created for this decision, with what it returned.             *)
(***************************************************************************)
Boards == {[pos |-> 0, turn |-> t, move_stack |-> << >>] : t \in BOOLEAN}

Endings ==
    {[kind |-> "none", pos |-> NoPos]}
    \cup {[kind |-> k, pos |-> p] : k \in {"mate", "draw"}, p \in Positions}

Windows ==
    {<<NegInf, PosInf>>, <<NegInf, Num(0)>>, <<Num(0), PosInf>>}

NoCall ==
    [op |-> "none", strategy |-> "none", depth |-> 0, turn |-> "white",
     is_maximizing |-> FALSE, alpha |-> NegInf, beta |-> PosInf,
     value |-> Num(0), move |-> None, error |-> "", calls |-> 0,
     before |-> [pos |-> NoPos, turn |-> FALSE, move_stack |-> << >>]]

Call(op, strategy, depth, turn, is_maximizing, alpha, beta, r) ==
    [op |-> op, strategy |-> strategy, depth |-> depth, turn |-> turn,
     is_maximizing |-> is_maximizing, alpha |-> alpha, beta |-> beta,
     value |-> r.value, move |-> r.move, error |-> r.error,
     calls |-> r.calls, before |-> board]

Init ==
    /\ material \in [Positions -> MaterialValues]
    /\ ended \in Endings
    /\ board \in Boards
    /\ out = NoCall

Returns(op, strategy, depth, turn, is_maximizing, alpha, beta, r) ==
    /\ out.op = "none"
    /\ board' = r.board
    /\ out' = Call(op, strategy, depth, turn, is_maximizing, alpha, beta, r)
    /\ UNCHANGED <<material, ended>>

RandomGetAction ==
    LET possible_moves_list == legal_moves(board) IN
    IF Len(possible_moves_list) = 0
    THEN Returns("get_action", "random", 0, side_to_move(board), FALSE,
                 NegInf, PosInf, Raised("IndexError", board, 0))
    ELSE \E k \in 1 .. Len(possible_moves_list) :
            Returns("get_action", "random", 0, side_to_move(board), FALSE,
                    NegInf, PosInf,
                    Result(Num(0), from_uci(uci(possible_moves_list[k])),
                           board, 0))

MinimaxGetAction ==
    \E depth \in Depths :
        Returns("get_action", "minimax", depth, side_to_move(board), board.turn,
                NegInf, PosInf,
                minimax(board, depth, side_to_move(board), board.turn))

AlphaBetaGetAction ==
    \E depth \in Depths :
        Returns("get_action", "alphabeta", depth, side_to_move(board),
                board.turn, NegInf, PosInf,
                alpha_beta(board, depth, side_to_move(board), board.turn,
                           NegInf, PosInf))

ExpectimaxGetAction ==
    \E depth \in Depths :
        Returns("get_action", "expectimax", depth, side_to_move(board), TRUE,
                NegInf, PosInf,
                expectimax(board, depth, side_to_move(board), TRUE))

MinimaxSearch ==
    \E depth \in Depths, turn \in Colors, is_maximizing \in BOOLEAN :
        Returns("search", "minimax", depth, turn, is_maximizing,
                NegInf, PosInf,
                minimax(board, depth, turn, is_maximizing))

AlphaBetaSearch ==
    \E depth \in Depths, turn \in Colors, is_maximizing \in BOOLEAN,
       w \in Windows :
        Returns("search", "alphabeta", depth, turn, is_maximizing, w[1], w[2],
                alpha_beta(board, depth, turn, is_maximizing, w[1], w[2]))

ExpectimaxSearch ==
    \E depth \in Depths, turn \in Colors, is_maximizing \in BOOLEAN :
        Returns("search", "expectimax", depth, turn, is_maximizing,
                NegInf, PosInf,
                expectimax(board, depth, turn, is_maximizing))

Next ==
    \/ RandomGetAction
    \/ MinimaxGetAction
    \/ AlphaBetaGetAction
    \/ ExpectimaxGetAction
    \/ MinimaxSearch
    \/ AlphaBetaSearch
    \/ ExpectimaxSearch

Spec == Init /\ [][Next]_vars

(***************************************************************************)
(* The calls a search makes when no move is skipped: the call itself and,  *)
(* below a node that is expanded, one call per legal move with the move    *)
(* pushed, the depth decremented, the colour and the flag flipped.         *)
(***************************************************************************)
RECURSIVE search_calls(_, _, _, _)
search_calls(b, depth, turn, is_maximizing) ==
    {[board |-> b, depth |-> depth, turn |-> turn,
      is_maximizing |-> is_maximizing]}
    \cup (IF depth = 0 \/ is_game_over(b) THEN {}
          ELSE UNION {search_calls(push(b, from_uci(uci(legal_moves(b)[k]))),
                                   depth - 1, next_turn(turn), ~is_maximizing)
                      : k \in 1 .. Len(legal_moves(b))})

(***************************************************************************)
(* Vocabulary of the properties.                                           *)
(***************************************************************************)
Served == out.op # "none"

Searched == Served /\ out.strategy \in {"minimax", "alphabeta", "expectimax"}

GotAction(strategy) == out.op = "get_action" /\ out.strategy = strategy

FullWindow == out.alpha = NegInf /\ out.beta = PosInf

RootCall ==
    /\ Searched
    /\ out.turn = side_to_move(out.before)
    /\ out.is_maximizing =
         (IF out.strategy = "expectimax" THEN TRUE ELSE out.before.turn)
    /\ FullWindow

Expanded == Searched /\ out.depth > 0 /\ ~is_game_over(out.before)

LegalSet(b) == {legal_moves(b)[k] : k \in 1 .. Len(legal_moves(b))}

OutCalls ==
    search_calls(out.before, out.depth, out.turn, out.is_maximizing)

MinimaxOfOut ==
    minimax(out.before, out.depth, out.turn, out.is_maximizing)

(***************************************************************************)
(* C1.  Push/pop symmetry: whatever the strategy, the position and the     *)
(* depth, the board after the call is the board before it, and below      *)
(* get_action the same holds of every recursive call (for alpha_beta,      *)
(* under every window tried), a cutoff included.                           *)
(***************************************************************************)
C1_BoardRestored ==
    /\ Served => board = out.before
    /\ GotAction("minimax") =>
          \A c \in OutCalls :
             minimax(c.board, c.depth, c.turn, c.is_maximizing).board = c.board
    /\ GotAction("expectimax") =>
          \A c \in OutCalls :
             expectimax(c.board, c.depth, c.turn, c.is_maximizing).board
                = c.board
    /\ GotAction("alphabeta") =>
          \A c \in OutCalls : \A w \in Windows :
             alpha_beta(c.board, c.depth, c.turn, c.is_maximizing,
                        w[1], w[2]).board = c.board

C1_Witness ==
    /\ GotAction("alphabeta")
    /\ out.depth = MaxDepth
    /\ out.calls < MinimaxOfOut.calls
    /\ out.move # None
    /\ board = out.before

(***************************************************************************)
(* C2.  Value agreement: the root call of alpha_beta with the window       *)
(* (-inf, +inf) returns exactly the value the root call of minimax         *)
(* returns on the same position at the same depth.                         *)
(***************************************************************************)
C2_ValueAgreement ==
    (RootCall /\ out.strategy = "alphabeta") => out.value = MinimaxOfOut.value

C2_Witness ==
    /\ RootCall /\ out.strategy = "alphabeta"
    /\ out.depth = MaxDepth
    /\ out.calls < MinimaxOfOut.calls
    /\ out.value = MinimaxOfOut.value

(***************************************************************************)
(* C3.  Depth-0 equivalence as claimed: a search call with depth 0 returns *)
(* evaluate_board_state(position, color), whatever the colour and the      *)
(* maximizing flag.                                                        *)
(***************************************************************************)
C3_Depth0IsEvaluate ==
    (Searched /\ out.depth = 0) =>
        out.value = evaluate_board_state(out.before, out.turn)

(***************************************************************************)
(* C3, amended.  A search call with depth 0 returns                        *)
(* evaluate_board_state(position, color) when the colour is white          *)
(* (minimax, alpha_beta) or the maximizing flag is set (expectimax), and   *)
(* the negation of it otherwise.                                           *)
(***************************************************************************)
C3_Depth0Signed ==
    (Searched /\ out.depth = 0) =>
        LET evaluation == evaluate_board_state(out.before, out.turn)
            kept == IF out.strategy = "expectimax" THEN out.is_maximizing
                    ELSE out.turn = "white"
        IN  /\ kept => out.value = evaluation
            /\ ~kept => out.value = Neg(evaluation)

C3_Witness ==
    /\ out.op = "search" /\ out.strategy = "minimax"
    /\ out.depth = 0 /\ out.turn = "black" /\ out.is_maximizing
    /\ out.value = Neg(evaluate_board_state(out.before, out.turn))
    /\ out.value # evaluate_board_state(out.before, out.turn)

(***************************************************************************)
(* The children of the node the call was made on, in the engine's order.   *)
(***************************************************************************)
OutMoves == legal_moves(out.before)

Beats(is_maximizing, a, b) == IF is_maximizing THEN Less(b, a) ELSE Less(a, b)

ChanceNode ==
    /\ Expanded /\ out.strategy = "expectimax"
    /\ ~out.is_maximizing
    /\ out.error = ""

ChanceChild(k) ==
    expectimax(push(out.before, OutMoves[k]), out.depth - 1,
               next_turn(out.turn), TRUE).value

RECURSIVE ChanceSum(_)
ChanceSum(k) == IF k = 0 THEN Num(0) ELSE Add(ChanceSum(k - 1), ChanceChild(k))

IsMeanOf(v, total, n) ==
    /\ IsFinite(v)
    /\ v.num * total.den * n = total.num * v.den

MinimaxChild(k) ==
    minimax(push(out.before, OutMoves[k]), out.depth - 1,
            next_turn(out.turn), ~out.is_maximizing).value

RECURSIVE MinimaxChildren(_)
MinimaxChildren(k) ==
    IF k = 0 THEN << >> ELSE Append(MinimaxChildren(k - 1), MinimaxChild(k))

BestIn(values, is_maximizing, k) ==
    \A j \in 1 .. Len(values) : ~Beats(is_maximizing, values[j], values[k])

FirstBestIn(values, is_maximizing) ==
    CHOOSE k \in 1 .. Len(values) :
        /\ BestIn(values, is_maximizing, k)
        /\ \A j \in 1 .. (k - 1) : ~BestIn(values, is_maximizing, j)

IndexOf(move) == CHOOSE k \in 1 .. Len(OutMoves) : OutMoves[k] = move

UniqueBestIn(values, is_maximizing) ==
    Cardinality({k \in 1 .. Len(values) : BestIn(values, is_maximizing, k)}) = 1

(***************************************************************************)
(* The white-reference evaluation of the position a root move leads to.    *)
(***************************************************************************)
WhiteEval(k) ==
    LET after == push(out.before, OutMoves[k])
    IN  Num(node_evaluation(after, side_to_move(after)))

WhiteBest(k) ==
    \A j \in 1 .. Len(OutMoves) : ~Less(WhiteEval(k), WhiteEval(j))

WhiteFirstBest ==
    CHOOSE k \in 1 .. Len(OutMoves) :
        WhiteBest(k) /\ \A j \in 1 .. (k - 1) : ~WhiteBest(j)

DepthOneWhite ==
    /\ out.op = "get_action" /\ Expanded
    /\ out.depth = 1
    /\ out.before.turn

(***************************************************************************)
(* The calls of a search that end in its base case.                        *)
(***************************************************************************)
IsLeaf(c) == c.depth = 0 \/ is_game_over(c.board)

LeafValue(c) == expectimax(c.board, c.depth, c.turn, c.is_maximizing).value

(***************************************************************************)
(* C4.  Expectimax mean law as claimed: a chance node (not maximizing,     *)
(* depth > 0, position not terminal) returns the arithmetic mean of the    *)
(* values of its children, one per legal move, and no move.                *)
(***************************************************************************)
C4_ChanceMeanNoMove ==
    ChanceNode =>
        /\ IsMeanOf(out.value, ChanceSum(Len(OutMoves)), Len(OutMoves))
        /\ out.move = None

(***************************************************************************)
(* C4, amended.  A chance node returns the arithmetic mean of the values   *)
(* of its children, one per legal move, and returns it together with the   *)
(* first legal move of the node, not with an absent move.                  *)
(***************************************************************************)
C4_ChanceMeanFirstMove ==
    ChanceNode =>
        /\ IsMeanOf(out.value, ChanceSum(Len(OutMoves)), Len(OutMoves))
        /\ out.move = OutMoves[1]

C4_Witness ==
    /\ ChanceNode
    /\ Len(OutMoves) = 3
    /\ ChanceChild(1) # ChanceChild(2)
    /\ out.value.den = 3
    /\ out.move = OutMoves[1]

(***************************************************************************)
(* C5.  Tie-break of minimax: the move returned at a maximizing node is    *)
(* the first move, in the engine's order, whose child value is the maximum *)
(* of the child values, and at a minimizing node the first whose child     *)
(* value is the minimum; the value returned is that child value.           *)
(***************************************************************************)
C5_FirstBestMove ==
    (Expanded /\ out.strategy = "minimax") =>
        LET values == MinimaxChildren(Len(OutMoves))
            first == FirstBestIn(values, out.is_maximizing)
        IN  /\ out.move = OutMoves[first]
            /\ out.value = values[first]

C5_Witness ==
    /\ Expanded /\ out.strategy = "minimax"
    /\ out.depth >= 2
    /\ LET values == MinimaxChildren(Len(OutMoves))
       IN  \E j, k \in 1 .. Len(values) :
              /\ j < k
              /\ BestIn(values, out.is_maximizing, j)
              /\ BestIn(values, out.is_maximizing, k)
              /\ \E l \in 1 .. Len(values) :
                    ~BestIn(values, out.is_maximizing, l)
              /\ out.move = OutMoves[j]

(***************************************************************************)
(* C6.  get_action of any strategy on a position with no legal move fails  *)
(* with the NoLegalMoves error; it returns nothing as a normal result.     *)
(***************************************************************************)
C6_NoLegalMovesError ==
    (out.op = "get_action" /\ Len(OutMoves) = 0) => out.error = "NoLegalMoves"

(***************************************************************************)
(* C7.  The move of AlphaBeta's get_action differs from the move of        *)
(* Minimax's get_action only when the two moves have equal minimax values; *)
(* when one root move alone has the best value, both return it.            *)
(***************************************************************************)
C7_MoveAgreement ==
    GotAction("alphabeta") =>
        LET reference == MinimaxOfOut.move
            values == MinimaxChildren(Len(OutMoves))
        IN  /\ out.move # reference =>
                  /\ out.move \in LegalSet(out.before)
                  /\ reference \in LegalSet(out.before)
                  /\ values[IndexOf(out.move)] = values[IndexOf(reference)]
            /\ (Expanded /\ UniqueBestIn(values, out.is_maximizing)) =>
                  out.move = reference

C7_Witness ==
    /\ GotAction("alphabeta") /\ Expanded
    /\ UniqueBestIn(MinimaxChildren(Len(OutMoves)), out.is_maximizing)
    /\ out.depth = MaxDepth
    /\ out.calls < MinimaxOfOut.calls
    /\ out.move = MinimaxOfOut.move
    /\ out.move # OutMoves[1]

(***************************************************************************)
(* C8.  At depth 1 with white to move (and the game not over), Minimax,    *)
(* AlphaBeta and Expectimax select the legal move whose resulting position *)
(* has the greatest white-reference evaluation (the first such move), and  *)
(* Minimax and AlphaBeta have that evaluation as the root value.           *)
(***************************************************************************)
C8_DepthOneGreedy ==
    DepthOneWhite =>
        /\ out.move = OutMoves[WhiteFirstBest]
        /\ out.strategy \in {"minimax", "alphabeta"} =>
              out.value = WhiteEval(WhiteFirstBest)

C8_Witness ==
    /\ DepthOneWhite /\ out.strategy = "expectimax"
    /\ WhiteFirstBest # 1
    /\ out.move = OutMoves[WhiteFirstBest]

(***************************************************************************)
(* C9.  The move of a result is absent only at a terminal or depth-0 node: *)
(* get_action on a position where the game is not over, with depth >= 1,   *)
(* returns a move that is a legal move of the position, and so does every  *)
(* search call on such a node; Random returns a legal move whenever the    *)
(* position has one.                                                       *)
(***************************************************************************)
C9_MovePresentAndLegal ==
    /\ Expanded => (out.error = "" /\ out.move \in LegalSet(out.before))
    /\ (Searched /\ out.move = None) =>
          (out.depth = 0 \/ is_game_over(out.before))
    /\ (GotAction("random") /\ Len(OutMoves) > 0) =>
          (out.error = "" /\ out.move \in LegalSet(out.before))

C9_Witness ==
    /\ out.op = "get_action" /\ Expanded
    /\ out.strategy = "minimax"
    /\ ~out.before.turn
    /\ out.move \in LegalSet(out.before)
    /\ out.move # OutMoves[1]

(***************************************************************************)
(* C10.  Expectimax scores every leaf from the perspective of the side to  *)
(* move at the root: at every leaf reached from get_action's root call the *)
(* value returned is the white-reference sum of the four terms when white  *)
(* is to move at the root and its negation when black is, whatever the     *)
(* parity of the leaf's depth.                                             *)
(***************************************************************************)
C10_RootPerspective ==
    GotAction("expectimax") =>
        \A c \in OutCalls :
            IsLeaf(c) =>
                LeafValue(c) =
                    (IF out.before.turn
                     THEN Num(node_evaluation(c.board, c.turn))
                     ELSE Num(-node_evaluation(c.board, c.turn)))

C10_Witness ==
    /\ GotAction("expectimax")
    /\ ~out.before.turn
    /\ \E c, d \in OutCalls :
          /\ IsLeaf(c) /\ IsLeaf(d)
          /\ c.is_maximizing /\ ~d.is_maximizing
          /\ node_evaluation(c.board, c.turn) # 0
          /\ node_evaluation(d.board, d.turn) # 0
          /\ LeafValue(c) = Num(-node_evaluation(c.board, c.turn))
          /\ LeafValue(d) = Num(-node_evaluation(d.board, d.turn))

====
